---- MODULE Spec2Model ----
(***************************************************************************)
(* Model of the x402 client helpers of try-aeon:                           *)
(*   - app/utils/paymentUtils.js : encodePaymentPayload,                   *)
(*     decodePaymentPayload, validatePaymentPayload                        *)
(*   - app/facilitator.js        : toJsonSafe, useFacilitator.verify,      *)
(*     useFacilitator.settle                                               *)
(*                                                                         *)
(* JavaScript values are tagged records [t |-> <typeof-like tag>, ...].    *)
(* Strings are sequences of one-character strings, so that conversions     *)
(* between big integers and text are computed digit by digit.              *)
(* Big integers are sign + magnitude, the magnitude a big-endian sequence  *)
(* of limbs without leading zero limbs (one value, one representation).    *)
(***************************************************************************)
EXTENDS Integers, Sequences, FiniteSets, TLC

VARIABLES
  cpc,        \* codec: position of the codec scenario
  payment,    \* codec: the payment object handed to encodePaymentPayload
  wire,       \* codec: the encoded string in flight (result of encode, or counterparty's)
  decoded,    \* codec: outcome of decodePaymentPayload(wire)
  vobj,       \* codec: the object handed to validatePaymentPayload directly
  validated,  \* codec: outcome of validatePaymentPayload(vobj)
  heap,       \* sanitizer: the caller's object graph, object identity |-> object
  root,       \* sanitizer: the value handed to toJsonSafe
  seen,       \* sanitizer: the identities in the WeakSet `seen`
  stack,      \* sanitizer: the active toJsonSafe calls, innermost last
  sresult,    \* sanitizer: outcome of the top-level toJsonSafe call
  spc,        \* sanitizer: "off", "ready", "running" or "done"
  emitted,    \* sanitizer (history): each { "[Circular]": true } returned, with
              \* whether its object was then being converted by an active call
  fpc,        \* facilitator client: position of the verify / settle call
  fop,        \* facilitator client: "verify" or "settle"
  facilitator,\* facilitator client: the config given to useFacilitator
  frequest,   \* facilitator client: the request handed to fetch
  fresp,      \* facilitator client: what fetch produced
  foutcome    \* facilitator client: how the promise of verify / settle settled

codecVars == <<cpc, payment, wire, decoded, vobj, validated>>
sanVars == <<heap, root, seen, stack, sresult, spc, emitted>>
facVars == <<fpc, fop, facilitator, frequest, fresp, foutcome>>

-----------------------------------------------------------------------------
(* JavaScript values *)

Undefined == [t |-> "undefined"]
Null == [t |-> "null"]
Bool(b) == [t |-> "boolean", v |-> b]
Num(n) == [t |-> "number", v |-> n, half |-> FALSE]
\* the non-integer number n + 0.5
NumHalf(n) == [t |-> "number", v |-> n, half |-> TRUE]
Str(chars) == [t |-> "string", v |-> chars]
BigIntV(neg, mag) == [t |-> "bigint", v |-> [neg |-> neg, mag |-> mag]]
Obj(fields) == [t |-> "object", v |-> fields]
Arr(items) == [t |-> "array", v |-> items]
EmptyFields == [k \in {} |-> Undefined]

\* outcome of a call: a returned value or a thrown error
Return(v) == [ok |-> TRUE, val |-> v]
Throw(kind, msg) == [ok |-> FALSE, err |-> kind, msg |-> msg]
None == [ok |-> FALSE, err |-> "none", msg |-> "not called"]

\* typeof x
TypeOf(x) == IF x.t \in {"null", "array"} THEN "object" ELSE x.t

\* ToBoolean(x), as used by !x
Truthy(x) ==
  CASE x.t = "undefined" -> FALSE
    [] x.t = "null" -> FALSE
    [] x.t = "boolean" -> x.v
    [] x.t = "number" -> x.half \/ x.v # 0
    [] x.t = "string" -> x.v # <<>>
    [] x.t = "bigint" -> x.v.mag # <<>>
    [] OTHER -> TRUE

\* x.k for x neither undefined nor null (own data properties only)
Get(x, k) ==
  IF x.t = "object" /\ k \in DOMAIN x.v THEN x.v[k] ELSE Undefined

IndexKey == <<"0", "1", "2", "3", "4", "5", "6", "7">>

\* the own enumerable properties copied by {...x}
Spread(x) ==
  CASE x.t = "object" -> x.v
    [] x.t \in {"array", "string"} ->
         [k \in {IndexKey[i] : i \in 1..Len(x.v)} |->
            LET i == CHOOSE j \in 1..Len(x.v) : IndexKey[j] = k
            IN IF x.t = "array" THEN x.v[i] ELSE Str(<<x.v[i]>>)]
    [] OTHER -> EmptyFields

\* {...a, ...b}: later properties win
Merge(a, b) == b @@ a

-----------------------------------------------------------------------------
(* Big integers *)

LimbBase == 2^16

DigitChars == <<"0", "1", "2", "3", "4", "5", "6", "7", "8", "9",
                "a", "b", "c", "d", "e", "f">>
DigitValue(c) == (CHOOSE i \in 1..16 : DigitChars[i] = c) - 1
IsDigitIn(c, radix) == \E i \in 1..radix : DigitChars[i] = c

RECURSIVE StripZeros(_)
StripZeros(mag) ==
  IF mag # <<>> /\ mag[1] = 0 THEN StripZeros(Tail(mag)) ELSE mag

\* mag * m + a, for small m and a
RECURSIVE MulAdd(_, _, _)
MulAdd(mag, m, a) ==
  IF mag = <<>> THEN (IF a = 0 THEN <<>> ELSE <<a>>)
  ELSE LET n == Len(mag)
           cur == mag[n] * m + a
       IN  Append(MulAdd(SubSeq(mag, 1, n - 1), m, cur \div LimbBase), cur % LimbBase)

\* quotient and remainder of mag by a small divisor d
RECURSIVE DivStep(_, _, _, _, _)
DivStep(mag, i, rem, acc, d) ==
  IF i > Len(mag) THEN [q |-> StripZeros(acc), r |-> rem]
  ELSE LET cur == rem * LimbBase + mag[i]
       IN  DivStep(mag, i + 1, cur % d, Append(acc, cur \div d), d)

DivSmall(mag, d) == DivStep(mag, 1, 0, <<>>, d)

\* the decimal digits of a small natural number, none for 0
RECURSIVE NatDigits(_)
NatDigits(n) ==
  IF n = 0 THEN <<>> ELSE Append(NatDigits(n \div 10), DigitChars[(n % 10) + 1])

\* the digits are produced four at a time, dividing by 10^4
FourDigits(n) ==
  <<DigitChars[(n \div 1000) + 1], DigitChars[((n \div 100) % 10) + 1],
    DigitChars[((n \div 10) % 10) + 1], DigitChars[(n % 10) + 1]>>

RECURSIVE DecimalDigits(_)
DecimalDigits(mag) ==
  IF mag = <<>> THEN <<>>
  ELSE LET dm == DivSmall(mag, 10^4)
       IN  IF dm.q = <<>> THEN NatDigits(dm.r)
           ELSE DecimalDigits(dm.q) \o FourDigits(dm.r)

RECURSIVE DropLeadingZeros(_)
DropLeadingZeros(chars) ==
  IF chars # <<>> /\ chars[1] = "0" THEN DropLeadingZeros(Tail(chars)) ELSE chars

RECURSIVE Radix16Digits(_)
Radix16Digits(mag) ==
  IF mag = <<>> THEN <<>>
  ELSE LET dm == DivSmall(mag, 16^3)
           low == <<DigitChars[(dm.r \div 256) + 1], DigitChars[((dm.r \div 16) % 16) + 1],
                    DigitChars[(dm.r % 16) + 1]>>
       IN  IF dm.q = <<>> THEN DropLeadingZeros(low) ELSE Radix16Digits(dm.q) \o low

\* toString(16) where toString() was meant
BigIntToStringRadix16(b) ==
  (IF b.neg THEN <<"-">> ELSE <<>>) \o
  (IF b.mag = <<>> THEN <<"0">> ELSE Radix16Digits(b.mag))

\* BigInt.prototype.toString(): base-10 text
BigIntToString(b) ==
  (IF b.neg THEN <<"-">> ELSE <<>>) \o
  (IF b.mag = <<>> THEN <<"0">> ELSE DecimalDigits(b.mag))

\* the value of a short run of digits of the radix
RECURSIVE SmallValue(_, _)
SmallValue(chars, radix) ==
  IF chars = <<>> THEN 0
  ELSE SmallValue(SubSeq(chars, 1, Len(chars) - 1), radix) * radix
       + DigitValue(chars[Len(chars)])

\* digits are read in runs whose value stays below a limb
RunLength(radix) == IF radix = 2 THEN 12 ELSE IF radix = 8 THEN 4 ELSE 3

\* the magnitude written by the digits chars[i..] of the radix, after acc
\* (the accumulator is computed before the next run is read)
RECURSIVE ParseFrom(_, _, _, _)
ParseFrom(chars, i, radix, acc) ==
  IF i > Len(chars) THEN acc
  ELSE LET last == IF i + RunLength(radix) - 1 < Len(chars)
                   THEN i + RunLength(radix) - 1 ELSE Len(chars)
           run == SubSeq(chars, i, last)
           next == MulAdd(acc, radix^Len(run), SmallValue(run, radix))
       IN  IF Len(next) >= 0 THEN ParseFrom(chars, last + 1, radix, next) ELSE <<>>

ParseDigits(chars, radix) == ParseFrom(chars, 1, radix, <<>>)

AllDigits(chars, radix) ==
  chars # <<>> /\ \A i \in 1..Len(chars) : IsDigitIn(chars[i], radix)

IsWhite(c) == c \in {" ", "\t", "\n"}

RECURSIVE TrimLeft(_)
TrimLeft(chars) ==
  IF chars # <<>> /\ IsWhite(chars[1]) THEN TrimLeft(Tail(chars)) ELSE chars

RECURSIVE TrimRight(_)
TrimRight(chars) ==
  IF chars # <<>> /\ IsWhite(chars[Len(chars)])
  THEN TrimRight(SubSeq(chars, 1, Len(chars) - 1)) ELSE chars

Trim(chars) == TrimRight(TrimLeft(chars))

\* the magnitude of a small natural number
SmallMag(n) == StripZeros(<<n \div LimbBase, n % LimbBase>>)

\* StringToBigInt: trims white space; empty text is 0n; 0x/0o/0b prefixes
\* select the radix; decimal text may carry a sign; anything else is a
\* SyntaxError
StringToBigInt(chars) ==
  LET s == Trim(chars)
      hasPrefix(p) == Len(s) >= 2 /\ s[1] = "0" /\ s[2] \in p
      rest == SubSeq(s, 3, Len(s))
      signed == s # <<>> /\ s[1] \in {"+", "-"}
      body == IF signed THEN Tail(s) ELSE s
      syntaxError == Throw("SyntaxError", "Cannot convert to a BigInt")
      prefixed(radix) ==
        IF AllDigits(rest, radix)
        THEN Return(BigIntV(FALSE, ParseDigits(rest, radix)))
        ELSE syntaxError
  IN  CASE s = <<>> -> Return(BigIntV(FALSE, <<>>))
        [] hasPrefix({"x", "X"}) -> prefixed(16)
        [] hasPrefix({"o", "O"}) -> prefixed(8)
        [] hasPrefix({"b", "B"}) -> prefixed(2)
        [] OTHER ->
             IF AllDigits(body, 10)
             THEN LET mag == ParseDigits(body, 10)
                  IN  Return(BigIntV(signed /\ s[1] = "-" /\ mag # <<>>, mag))
             ELSE syntaxError

\* Number.prototype.toString() of a small number
NumberToString(x) ==
  LET a == IF x.v < 0 THEN -x.v ELSE x.v
  IN  (IF x.v < 0 THEN <<"-">> ELSE <<>>) \o
      (IF a = 0 THEN <<"0">> ELSE NatDigits(a)) \o
      (IF x.half THEN <<".", "5">> ELSE <<>>)

ObjectObjectText ==
  <<"[", "o", "b", "j", "e", "c", "t", " ", "O", "b", "j", "e", "c", "t", "]">>
TrueText == <<"t", "r", "u", "e">>
FalseText == <<"f", "a", "l", "s", "e">>

\* ToString(x) for x neither undefined nor null; arrays join their elements
\* with commas, undefined and null elements contributing nothing
RECURSIVE ToStringV(_)
RECURSIVE JoinItems(_)
JoinItems(items) ==
  IF items = <<>> THEN <<>>
  ELSE (IF items[1].t \in {"undefined", "null"} THEN <<>> ELSE ToStringV(items[1])) \o
       (IF Len(items) > 1 THEN <<",">> \o JoinItems(Tail(items)) ELSE <<>>)
ToStringV(x) ==
  CASE x.t = "string" -> x.v
    [] x.t = "number" -> NumberToString(x)
    [] x.t = "boolean" -> IF x.v THEN TrueText ELSE FalseText
    [] x.t = "bigint" -> BigIntToString(x.v)
    [] x.t = "array" -> JoinItems(x.v)
    [] OTHER -> ObjectObjectText

\* BigInt(x)
ToBigInt(x) ==
  CASE x.t \in {"undefined", "null"} -> Throw("TypeError", "Cannot convert to a BigInt")
    [] x.t = "bigint" -> Return(x)
    [] x.t = "boolean" -> Return(BigIntV(FALSE, IF x.v THEN <<1>> ELSE <<>>))
    [] x.t = "number" ->
         IF x.half THEN Throw("RangeError", "not an integer")
         ELSE Return(BigIntV(x.v < 0, SmallMag(IF x.v < 0 THEN -x.v ELSE x.v)))
    [] OTHER -> StringToBigInt(ToStringV(x))

-----------------------------------------------------------------------------
(* JSON text and the base64 transport *)

\* JSON.stringify(x) as a document: properties holding undefined are left
\* out, undefined array elements become null, a big integer anywhere is a
\* TypeError.  HasBigInt / JsonTree split the walk into test and result.
RECURSIVE HasBigInt(_)
HasBigInt(x) ==
  CASE x.t = "bigint" -> TRUE
    [] x.t = "object" -> \E k \in DOMAIN x.v : HasBigInt(x.v[k])
    [] x.t = "array" -> \E i \in 1..Len(x.v) : HasBigInt(x.v[i])
    [] OTHER -> FALSE

RECURSIVE JsonTree(_)
JsonTree(x) ==
  CASE x.t = "object" ->
         Obj([k \in {j \in DOMAIN x.v : x.v[j].t # "undefined"} |-> JsonTree(x.v[k])])
    [] x.t = "array" ->
         Arr([i \in 1..Len(x.v) |->
                IF x.v[i].t = "undefined" THEN Null ELSE JsonTree(x.v[i])])
    [] OTHER -> x

JSONStringify(x) ==
  IF HasBigInt(x) THEN Throw("TypeError", "Do not know how to serialize a BigInt")
  ELSE Return([json |-> JsonTree(x)])

\* JSON.parse(text): the document's value, or a SyntaxError for text that is
\* not JSON
JSONParse(text) ==
  IF "json" \in DOMAIN text THEN Return(text.json)
  ELSE Throw("SyntaxError", "Unexpected token")

\* the base64 primitive: decode inverts encode
safeBase64Encode(text) == [b64 |-> text]
safeBase64Decode(s) == s.b64

NotJson == [garbage |-> TRUE]

-----------------------------------------------------------------------------
(* paymentUtils.js *)

AuthorizationTag == <<"a", "u", "t", "h", "o", "r", "i", "z", "a", "t", "i", "o", "n">>
Eip3009Tag == AuthorizationTag \o <<"E", "i", "p", "3", "0", "0", "9">>

\* type === "authorization" || type === "authorizationEip3009"
IsAuthType(ty) == ty.t = "string" /\ ty.v \in {AuthorizationTag, Eip3009Tag}

IsNullish(x) == x.t \in {"undefined", "null"}

PropertyOfNullish == Throw("TypeError", "Cannot read properties of undefined")

\* x.toString()
CallToString(x) ==
  IF IsNullish(x) THEN PropertyOfNullish ELSE Return(Str(ToStringV(x)))

\* s.startsWith("0x") on a string
StartsWith0x(chars) == Len(chars) >= 2 /\ chars[1] = "0" /\ chars[2] = "x"

\* { ...auth, value, validAfter, validBefore } from the outcomes of the three
\* conversions, evaluated in this order: the first that throws decides
WithIntegerFields(auth, value, validAfter, validBefore) ==
  IF IsNullish(auth) THEN PropertyOfNullish
  ELSE IF ~value.ok THEN value
  ELSE IF ~validAfter.ok THEN validAfter
  ELSE IF ~validBefore.ok THEN validBefore
  ELSE Return(Obj(Merge(Spread(auth),
                        [value |-> value.val,
                         validAfter |-> validAfter.val,
                         validBefore |-> validBefore.val])))

\* { ...p, payload: { ...p.payload, ...(isAuth && { authorization }) } }, the
\* authorization being the outcome of rebuilding p.payload.authorization
WithAuthorization(p, authorization) ==
  LET payload == Get(p, "payload")
  IN  IF IsNullish(p) \/ IsNullish(payload) THEN PropertyOfNullish
      ELSE IF ~IsAuthType(Get(payload, "type"))
      THEN Return(Obj(Merge(Spread(p), [payload |-> Obj(Spread(payload))])))
      ELSE IF ~authorization.ok THEN authorization
      ELSE Return(Obj(Merge(Spread(p),
                  [payload |-> Obj(Merge(Spread(payload),
                                         [authorization |-> authorization.val]))])))

\* the object `safe` of encodePaymentPayload (lines 3-16)
SafeCopy(p) ==
  LET auth == Get(Get(p, "payload"), "authorization")
  IN  WithAuthorization(p,
        WithIntegerFields(auth,
          CallToString(Get(auth, "value")),
          CallToString(Get(auth, "validAfter")),
          CallToString(Get(auth, "validBefore"))))

encodePaymentPayload(p) ==
  LET safe == SafeCopy(p)
      text == JSONStringify(safe.val)
  IN  IF ~safe.ok THEN safe
      ELSE IF ~text.ok THEN text
      ELSE Return(safeBase64Encode(text.val))

\* the object `obj` of decodePaymentPayload (lines 22-35)
Reconstructed(parsed) ==
  LET auth == Get(Get(parsed, "payload"), "authorization")
  IN  WithAuthorization(parsed,
        WithIntegerFields(auth,
          ToBigInt(Get(auth, "value")),
          ToBigInt(Get(auth, "validAfter")),
          ToBigInt(Get(auth, "validBefore"))))

\* the validation without the check of the signature's 0x prefix
validateWithoutPrefixCheck(obj) ==
  LET payload == Get(obj, "payload")
      auth == Get(payload, "authorization")
      signature == Get(payload, "signature")
      type == Get(payload, "type")
  IN  IF ~Truthy(obj) \/ TypeOf(obj) # "object" \/ ~Truthy(payload)
         \/ TypeOf(payload) # "object" \/ ~Truthy(type)
      THEN Throw("Error", "Invalid payment payload structure")
      ELSE IF IsAuthType(type)
      THEN IF ~Truthy(auth)
              \/ TypeOf(Get(auth, "value")) # "bigint"
              \/ TypeOf(Get(auth, "validAfter")) # "bigint"
              \/ TypeOf(Get(auth, "validBefore")) # "bigint"
              \/ TypeOf(Get(auth, "nonce")) # "string"
              \/ TypeOf(Get(auth, "version")) # "string"
              \/ ~Truthy(signature)
           THEN Throw("Error", "Invalid authorization payload values")
           ELSE Return(obj)
      ELSE Throw("Error", "Invalid payload type")

validatePaymentPayload(obj) ==
  LET payload == Get(obj, "payload")
      auth == Get(payload, "authorization")
      signature == Get(payload, "signature")
      type == Get(payload, "type")
  IN  IF ~Truthy(obj) \/ TypeOf(obj) # "object" \/ ~Truthy(payload)
         \/ TypeOf(payload) # "object" \/ ~Truthy(type)
      THEN Throw("Error", "Invalid payment payload structure")
      ELSE IF IsAuthType(type)
      THEN IF ~Truthy(auth)
              \/ TypeOf(Get(auth, "value")) # "bigint"
              \/ TypeOf(Get(auth, "validAfter")) # "bigint"
              \/ TypeOf(Get(auth, "validBefore")) # "bigint"
              \/ TypeOf(Get(auth, "nonce")) # "string"
              \/ TypeOf(Get(auth, "version")) # "string"
              \/ ~Truthy(signature)
           THEN Throw("Error", "Invalid authorization payload values")
           ELSE IF signature.t # "string"
           THEN Throw("TypeError", "obj.payload.signature.startsWith is not a function")
           ELSE IF ~StartsWith0x(signature.v)
           THEN Throw("Error", "Invalid authorization payload values")
           ELSE Return(obj)
      ELSE Throw("Error", "Invalid payload type")

decodePaymentPayload(w) ==
  LET parsed == JSONParse(safeBase64Decode(w))
      obj == Reconstructed(parsed.val)
  IN  IF ~parsed.ok THEN parsed
      ELSE IF ~obj.ok THEN obj
      ELSE validatePaymentPayload(obj.val)

-----------------------------------------------------------------------------
(* Codec scenario: inputs *)

BigExp == 200

\* 2^n as a magnitude
Pow2(n) == MulAdd(<<1>> \o [i \in 1..(n \div 16) |-> 0], 2^(n % 16), 0)

Text_n1 == <<"n", "1">>
Text_1 == <<"1">>
Text_0xab == <<"0", "x", "a", "b">>
Text_ab == <<"a", "b">>
Text_foo == <<"f", "o", "o">>
Text_exact == <<"e", "x", "a", "c", "t">>

\* an object from a record, fields holding undefined being absent
Fields(rec) == Obj([k \in {j \in DOMAIN rec : rec[j].t # "undefined"} |-> rec[k]])

MkPayment(type, value, validAfter, validBefore, nonce, version, signature) ==
  Fields([x402Version |-> Num(1),
          scheme |-> Str(Text_exact),
          payload |-> Fields([
            type |-> type,
            authorization |-> Fields([
              from |-> Str(Text_0xab),
              value |-> value,
              validAfter |-> validAfter,
              validBefore |-> validBefore,
              nonce |-> nonce,
              version |-> version]),
            signature |-> signature])])

\* payments handed to encodePaymentPayload by a signer
PaymentInputs ==
  { MkPayment(ty, v, va, vb, n, Str(Text_1), sg) :
      ty \in {Str(AuthorizationTag), Str(Eip3009Tag), Str(Text_foo)},
      v \in {BigIntV(FALSE, <<>>), BigIntV(FALSE, SmallMag(7)),
             BigIntV(FALSE, SmallMag(1000000)), BigIntV(FALSE, Pow2(64)),
             BigIntV(FALSE, MulAdd(Pow2(BigExp), 1, 5)),
             BigIntV(TRUE, SmallMag(5)), Num(5)},
      va \in {BigIntV(FALSE, <<>>), BigIntV(FALSE, MulAdd(Pow2(64), 1, 1))},
      vb \in {BigIntV(FALSE, SmallMag(99)), BigIntV(FALSE, Pow2(BigExp))},
      n \in {Str(Text_n1), Num(7)},
      sg \in {Str(Text_0xab), Str(Text_ab)} }

\* what a counterparty may put in an integer field of the wire document
WireIntegerFields ==
  { Str(<<"5">>), Str(BigIntToString([neg |-> FALSE, mag |-> Pow2(64)])),
    Str(<<"-", "5">>), Str(<<"+", "5">>), Str(<<"0", "0", "7">>),
    Str(<<>>), Str(<<" ", "7", " ">>), Str(<<" ">>), Str(<<"0", "x", "1", "0">>),
    Str(<<"a", "b", "c">>), Str(<<"1", ".", "5">>), Str(<<"5", "n">>),
    Num(5), NumHalf(1), Bool(TRUE), Null, Undefined,
    Arr(<<>>), Arr(<<Num(5)>>), Obj(EmptyFields) }

WireTypes ==
  { Str(AuthorizationTag), Str(Eip3009Tag), Str(Text_foo), Str(<<>>), Num(7), Undefined }

WireSignatures ==
  { Str(Text_0xab), Str(Text_ab), Str(<<>>), Num(5), Undefined, Arr(<<Str(Text_0xab)>>) }

\* JSON documents a counterparty may send, and text that is not JSON
WireDocuments ==
  { MkPayment(ty, v, va, vb, n, ver, sg) :
      ty \in WireTypes, v \in WireIntegerFields,
      va \in {Str(<<"0">>), Str(<<>>)},
      vb \in {Str(<<"9">>), Undefined},
      n \in {Str(Text_n1), Num(7), Undefined},
      ver \in {Str(Text_1), Null},
      sg \in WireSignatures }
  \cup
  { Null, Num(5), Str(Text_ab), Arr(<<>>), Obj(EmptyFields),
    Fields([payload |-> Null]), Fields([payload |-> Num(5)]),
    Fields([payload |-> Str(Text_ab)]),
    Fields([payload |-> Fields([type |-> Str(AuthorizationTag),
                                signature |-> Str(Text_0xab)])]),
    Fields([payload |-> Fields([type |-> Str(Eip3009Tag), authorization |-> Null,
                                signature |-> Str(Text_0xab)])]),
    Fields([payload |-> Fields([type |-> Str(Text_foo)])]) }

CounterpartyWires ==
  { safeBase64Encode([json |-> d]) : d \in WireDocuments } \cup { safeBase64Encode(NotJson) }

\* objects handed to validatePaymentPayload
ValidateInputs ==
  { MkPayment(ty, v, va, vb, n, ver, sg) :
      ty \in WireTypes,
      v \in {BigIntV(FALSE, SmallMag(5)), BigIntV(FALSE, Pow2(64)), Str(<<"5">>),
             Num(5), Undefined},
      va \in {BigIntV(FALSE, <<>>), Str(<<"0">>)},
      vb \in {BigIntV(FALSE, Pow2(BigExp)), Undefined},
      n \in {Str(Text_n1), Num(7)},
      ver \in {Str(Text_1), Undefined},
      sg \in WireSignatures \cup {Bool(TRUE), Obj(EmptyFields)} }
  \cup
  { Undefined, Null, Num(5), Str(Text_ab), Arr(<<>>), Obj(EmptyFields),
    Fields([payload |-> Num(5)]), Fields([payload |-> Str(Text_ab)]),
    Fields([payload |-> Arr(<<>>)]),
    Fields([payload |-> Fields([type |-> Str(AuthorizationTag),
                                signature |-> Str(Text_0xab)])]),
    Fields([payload |-> Fields([type |-> Str(AuthorizationTag),
                                authorization |-> Num(5),
                                signature |-> Str(Text_0xab)])]) }

-----------------------------------------------------------------------------
(* Codec scenario: actions *)

InitCodecVars ==
  /\ cpc = "idle"
  /\ payment = Undefined
  /\ wire = None
  /\ decoded = None
  /\ vobj = Undefined
  /\ validated = None

\* a signer encodes a payment
Encode ==
  /\ cpc = "idle"
  /\ \E p \in PaymentInputs :
       /\ payment' = p
       /\ wire' = encodePaymentPayload(p)
  /\ cpc' = "encoded"
  /\ UNCHANGED <<decoded, vobj, validated>>
  /\ UNCHANGED <<sanVars, facVars>>

\* a string arrives from a counterparty
Receive ==
  /\ cpc = "idle"
  /\ \E w \in CounterpartyWires : wire' = Return(w)
  /\ cpc' = "received"
  /\ UNCHANGED <<payment, decoded, vobj, validated>>
  /\ UNCHANGED <<sanVars, facVars>>

\* the receiver decodes the string in flight
Decode ==
  /\ cpc \in {"encoded", "received"}
  /\ wire.ok
  /\ decoded' = decodePaymentPayload(wire.val)
  /\ cpc' = IF cpc = "encoded" THEN "decodedOwn" ELSE "decodedForeign"
  /\ UNCHANGED <<payment, wire, vobj, validated>>
  /\ UNCHANGED <<sanVars, facVars>>

\* validatePaymentPayload applied to an object
Validate ==
  /\ cpc = "idle"
  /\ \E o \in ValidateInputs :
       /\ vobj' = o
       /\ validated' = validatePaymentPayload(o)
  /\ cpc' = "validated"
  /\ UNCHANGED <<payment, wire, decoded>>
  /\ UNCHANGED <<sanVars, facVars>>

-----------------------------------------------------------------------------
(* Codec properties *)

IsBigIntField(o, f) == Get(Get(Get(o, "payload"), "authorization"), f).t = "bigint"
IsStringField(o, f) == Get(Get(Get(o, "payload"), "authorization"), f).t = "string"
SignatureOf(o) == Get(Get(o, "payload"), "signature")
TypeTagOf(o) == Get(Get(o, "payload"), "type")
HasHexSignature(o) == SignatureOf(o).t = "string" /\ StartsWith0x(SignatureOf(o).v)

\* what the validation gate promises of a payload
PassesGate(o) ==
  /\ IsAuthType(TypeTagOf(o))
  /\ \A f \in {"value", "validAfter", "validBefore"} : IsBigIntField(o, f)
  /\ \A f \in {"nonce", "version"} : IsStringField(o, f)
  /\ HasHexSignature(o)

WellFormedPayment(p) ==
  /\ PassesGate(p)
  /\ \A f \in {"value", "validAfter", "validBefore"} :
       ~Get(Get(Get(p, "payload"), "authorization"), f).v.neg

BigValue == BigIntV(FALSE, MulAdd(Pow2(BigExp), 1, 5))

\* C1: round trip.  For every well-formed payment (authorization-like type,
\* non-negative big-integer value / validAfter / validBefore, string nonce and
\* version, signature starting with 0x), encodePaymentPayload succeeds and
\* decodePaymentPayload of its result succeeds and returns a payload equal to
\* the payment field for field, big integers equal by value.
C1_RoundTrip ==
  WellFormedPayment(payment) =>
    /\ cpc = "encoded" => wire.ok
    /\ cpc = "decodedOwn" => decoded.ok /\ decoded.val = payment

\* a payment carrying a value above the 64-bit range went through encode and
\* decode
C1_Witness ==
  /\ cpc = "decodedOwn"
  /\ WellFormedPayment(payment)
  /\ Get(Get(Get(payment, "payload"), "authorization"), "value") = BigValue
  /\ decoded.ok
  /\ Get(Get(Get(decoded.val, "payload"), "authorization"), "value") = BigValue

WireDocument == JSONParse(safeBase64Decode(wire.val))

\* the inputs the validation must reject
FailsGateOnWire(d) ==
  \/ ~HasHexSignature(d)
  \/ \E f \in {"nonce", "version"} : ~IsStringField(d, f)
  \/ ~IsAuthType(TypeTagOf(d))

\* C2: decodePaymentPayload never returns a payload that violates the
\* validation gate, and every input whose signature does not start with 0x,
\* whose nonce or version is not a string, or whose payload.type is missing
\* or unrecognized is rejected with an error.
C2_DecodeGate ==
  cpc \in {"decodedOwn", "decodedForeign"} =>
    /\ decoded.ok => PassesGate(decoded.val)
    /\ (WireDocument.ok /\ FailsGateOnWire(WireDocument.val)) => ~decoded.ok
    /\ ~WireDocument.ok => ~decoded.ok

\* a counterparty's document, fine but for a signature without the 0x
\* prefix, was decoded and rejected
C2_Witness ==
  /\ cpc = "decodedForeign"
  /\ WireDocument.ok
  /\ IsAuthType(TypeTagOf(WireDocument.val))
  /\ SignatureOf(WireDocument.val) = Str(Text_ab)
  /\ \A f \in {"nonce", "version"} : IsStringField(WireDocument.val, f)
  /\ ~decoded.ok
  /\ decoded.msg = "Invalid authorization payload values"

\* text of a base-10 integer: an optional sign and at least one decimal digit
IsDecimalIntegerText(x) ==
  /\ x.t = "string"
  /\ LET body == IF x.v # <<>> /\ x.v[1] \in {"+", "-"} THEN Tail(x.v) ELSE x.v
     IN  AllDigits(body, 10)

\* C3: for an authorization-like document, whenever the transported value,
\* validAfter or validBefore is not a valid base-10 integer string, decode
\* fails (it never coerces the field to some big integer and returns).
C3_NoCoercion ==
  (/\ cpc \in {"decodedOwn", "decodedForeign"}
   /\ WireDocument.ok
   /\ IsAuthType(TypeTagOf(WireDocument.val))
   /\ \E f \in {"value", "validAfter", "validBefore"} :
        ~IsDecimalIntegerText(Get(Get(Get(WireDocument.val, "payload"), "authorization"), f)))
  => ~decoded.ok

StructureError == Throw("Error", "Invalid payment payload structure")
AuthorizationError == Throw("Error", "Invalid authorization payload values")
UnknownPayloadTypeError == Throw("Error", "Invalid payload type")

\* the outcome the three-way classification prescribes for an object
PrescribedValidation(o) ==
  IF \/ o.t # "object"
     \/ Get(o, "payload").t \notin {"object", "array"}
     \/ ~Truthy(TypeTagOf(o))
  THEN StructureError
  ELSE IF ~IsAuthType(TypeTagOf(o)) THEN UnknownPayloadTypeError
  ELSE IF PassesGate(o) THEN Return(o)
  ELSE AuthorizationError

\* C4: validatePaymentPayload fails in exactly three ways (StructureError,
\* AuthorizationError, UnknownPayloadTypeError), chosen as prescribed, a
\* signature that is present but not a string being an AuthorizationError;
\* on success it returns its input unchanged.
C4_ThreeFailureKinds ==
  /\ cpc = "validated" => validated = PrescribedValidation(vobj)
  /\ (cpc = "decodedForeign" /\ WireDocument.ok /\ Reconstructed(WireDocument.val).ok)
       => decoded = PrescribedValidation(Reconstructed(WireDocument.val).val)

-----------------------------------------------------------------------------
(* facilitator.js: toJsonSafe *)

\* a reference to the object with identity i of the heap
Ref(i) == [t |-> "ref", id |-> i]
Symbol == [t |-> "symbol"]
Function == [t |-> "function"]

PropKey == <<"a", "b", "c", "d", "e", "f", "g", "h">>

Sentinel == Obj([k \in {"[Circular]"} |-> Bool(TRUE)])
IsoText ==
  <<"1", "9", "7", "0", "-", "0", "1", "-", "0", "1", "T",
    "0", "0", ":", "0", "0", ":", "0", "0", ".", "0", "0", "0", "Z">>
SymbolText == <<"S", "y", "m", "b", "o", "l", "(", ")">>
FunctionMarker == <<"[", "F", "u", "n", "c", "t", "i", "o", "n", "]">>

InputTypeError == Throw("Error", "Input must be a valid object or array")
ConversionError == Throw("Error", "Failed to convert to JSON-safe format")

\* the engine's call-stack limit, counted in toJsonSafe calls
MaxDepth == 8

KindOf(v) == IF v.t = "ref" THEN heap[v.id].kind ELSE "primitive"

\* the i-th key Object.entries reports: indices for arrays, names otherwise
KeyAt(keys, i) == IF keys = "index" THEN IndexKey[i] ELSE PropKey[i]

\* Object.fromEntries(map) / a plain object, as key |-> value
PropFields(slots) == [k \in {PropKey[i] : i \in 1..Len(slots)} |->
                        slots[CHOOSE i \in 1..Len(slots) : PropKey[i] = k]]

\* the activation of a toJsonSafe call on object id walking Object.entries
Frame(id, keys, slots) ==
  [id |-> id, keys |-> keys, slots |-> slots, idx |-> 1, acc |-> EmptyFields,
   inItems |-> FALSE, items |-> <<>>, j |-> 1, out |-> <<>>]

\* the caller's frame after the callee (or an inline conversion) produced val
Delivered(fr, val) ==
  IF fr.inItems
  THEN [fr EXCEPT !.out = Append(@, val), !.j = @ + 1]
  ELSE [fr EXCEPT !.acc = (KeyAt(fr.keys, fr.idx) :> val) @@ @, !.idx = @ + 1]

Top == stack[Len(stack)]
Below == SubSeq(stack, 1, Len(stack) - 1)
OnPath(id) == \E i \in 1..Len(stack) : stack[i].id = id

\* the whole conversion fails: every enclosing catch rethrows
SanThrow ==
  /\ sresult' = ConversionError
  /\ stack' = <<>>
  /\ spc' = "done"

\* toJsonSafe without the seen.has(data) test
EnterWithoutSeenCheck(id, callers) ==
  /\ seen' = seen \cup {id}
  /\ UNCHANGED emitted
  /\ CASE Len(callers) >= MaxDepth -> SanThrow
       [] heap[id].kind = "invaliddate" -> SanThrow
       [] heap[id].kind = "date" ->
            IF callers = <<>>
            THEN sresult' = Return(Str(IsoText)) /\ stack' = <<>> /\ spc' = "done"
            ELSE /\ stack' = [callers EXCEPT ![Len(callers)] = Delivered(@, Str(IsoText))]
                 /\ UNCHANGED <<sresult, spc>>
       [] OTHER ->
            /\ stack' = Append(callers,
                 Frame(id, IF heap[id].kind \in {"array", "set"} THEN "index" ELSE "prop",
                       heap[id].slots))
            /\ spc' = "running"
            /\ UNCHANGED sresult

\* toJsonSafe(Ref(id), seen) called with callers as the activations that
\* wait for its value (lines 13-26 and the entry into the reduce)
Enter(id, callers) ==
  IF id \in seen
  THEN /\ emitted' = emitted \cup {[id |-> id, onPath |-> OnPath(id)]}
       /\ seen' = seen
       /\ IF callers = <<>>
          THEN sresult' = Return(Sentinel) /\ stack' = <<>> /\ spc' = "done"
          ELSE /\ stack' = [callers EXCEPT ![Len(callers)] = Delivered(@, Sentinel)]
               /\ UNCHANGED <<sresult, spc>>
  ELSE /\ seen' = seen \cup {id}
       /\ UNCHANGED emitted
       /\ CASE Len(callers) >= MaxDepth -> SanThrow
            [] heap[id].kind = "invaliddate" -> SanThrow
            [] heap[id].kind = "date" ->
                 IF callers = <<>>
                 THEN sresult' = Return(Str(IsoText)) /\ stack' = <<>> /\ spc' = "done"
                 ELSE /\ stack' = [callers EXCEPT ![Len(callers)] = Delivered(@, Str(IsoText))]
                      /\ UNCHANGED <<sresult, spc>>
            [] OTHER ->
                 /\ stack' = Append(callers,
                      Frame(id, IF heap[id].kind \in {"array", "set"} THEN "index" ELSE "prop",
                            heap[id].slots))
                 /\ spc' = "running"
                 /\ UNCHANGED sresult

\* the top-level call toJsonSafe(root)
SanCall ==
  /\ spc = "ready"
  /\ IF root.t # "ref"
     THEN /\ sresult' = InputTypeError
          /\ spc' = "done"
          /\ UNCHANGED <<seen, stack, emitted>>
     ELSE Enter(root.id, <<>>)
  /\ UNCHANGED <<heap, root, codecVars, facVars>>

\* one iteration of the reduce over Object.entries(data) (lines 27-60)
SanEntry ==
  /\ spc = "running"
  /\ ~Top.inItems
  /\ Top.idx <= Len(Top.slots)
  /\ LET v == Top.slots[Top.idx]
         put(val) == /\ stack' = [stack EXCEPT ![Len(stack)] = Delivered(@, val)]
                     /\ UNCHANGED <<seen, sresult, spc, emitted>>
     IN  CASE v.t \in {"undefined", "null"} ->
                /\ stack' = [stack EXCEPT ![Len(stack)].idx = @ + 1]
                /\ UNCHANGED <<seen, sresult, spc, emitted>>
           [] KindOf(v) = "date" -> put(Str(IsoText))
           [] KindOf(v) = "invaliddate" -> SanThrow /\ UNCHANGED <<seen, emitted>>
           [] v.t = "bigint" -> put(Str(BigIntToString(v.v)))
           [] v.t = "symbol" -> put(Str(SymbolText))
           [] KindOf(v) = "set" -> put(Arr(heap[v.id].slots))
           [] KindOf(v) = "map" -> put(Obj(PropFields(heap[v.id].slots)))
           [] KindOf(v) = "array" ->
                /\ stack' = [stack EXCEPT ![Len(stack)] =
                               [@ EXCEPT !.inItems = TRUE, !.items = heap[v.id].slots,
                                         !.j = 1, !.out = <<>>]]
                /\ UNCHANGED <<seen, sresult, spc, emitted>>
           [] KindOf(v) = "object" -> Enter(v.id, stack)
           [] v.t = "function" -> put(Str(FunctionMarker))
           [] OTHER -> put(v)
  /\ UNCHANGED <<heap, root, codecVars, facVars>>

\* one iteration of value.map(...) over an array-valued entry (lines 47-49)
SanItem ==
  /\ spc = "running"
  /\ Top.inItems
  /\ Top.j <= Len(Top.items)
  /\ LET item == Top.items[Top.j]
     IN  IF item.t = "ref"
         THEN Enter(item.id, stack)
         ELSE /\ stack' = [stack EXCEPT ![Len(stack)] = Delivered(@, item)]
              /\ UNCHANGED <<seen, sresult, spc, emitted>>
  /\ UNCHANGED <<heap, root, codecVars, facVars>>

\* value.map(...) finished: result[key] = the mapped array
SanItemsDone ==
  /\ spc = "running"
  /\ Top.inItems
  /\ Top.j > Len(Top.items)
  /\ stack' = [stack EXCEPT ![Len(stack)] =
                 Delivered([@ EXCEPT !.inItems = FALSE], Arr(Top.out))]
  /\ UNCHANGED <<heap, root, seen, sresult, spc, emitted, codecVars, facVars>>

\* the reduce finished: the call returns its result object (line 61)
SanReturn ==
  /\ spc = "running"
  /\ ~Top.inItems
  /\ Top.idx > Len(Top.slots)
  /\ IF Len(stack) = 1
     THEN /\ sresult' = Return(Obj(Top.acc))
          /\ stack' = <<>>
          /\ spc' = "done"
     ELSE /\ stack' = [Below EXCEPT ![Len(Below)] = Delivered(@, Obj(Top.acc))]
          /\ UNCHANGED <<sresult, spc>>
  /\ UNCHANGED <<heap, root, seen, emitted, codecVars, facVars>>

-----------------------------------------------------------------------------
(* Sanitizer scenario: object graphs *)

NumObjs == 2

Shape(kind, slots) == [kind |-> kind, slots |-> slots]

\* what a property, element or entry of an object of the family may hold:
\* a big integer or any object of the graph
SlotValues == {BigIntV(FALSE, SmallMag(5))} \cup {Ref(i) : i \in 1..NumObjs}

NoMember == {<<>>}
OneMember == {<<v>> : v \in SlotValues}
TwoMembers == {<<v, w>> : v \in SlotValues, w \in SlotValues}

\* every graph of NumObjs objects, each a plain object or an array of no,
\* one or two members, a set or a map of at most one, or a date
FamilyShapes ==
  {Shape(k, sl) : k \in {"object", "array"}, sl \in NoMember \cup OneMember \cup TwoMembers}
  \cup {Shape(k, sl) : k \in {"set", "map"}, sl \in NoMember \cup OneMember}
  \cup {Shape("date", <<>>)}

FamilyHeaps == [1..NumObjs -> FamilyShapes]

Text_evm == <<"e", "v", "m">>

\* graphs with the remaining kinds of values, and deeper ones
NamedHeaps ==
  { \* { a: undefined, b: null, c: 1 }
    <<Shape("object", <<Undefined, Null, Num(1)>>)>>,
    \* { a: fn, b: Symbol(), c: date, d: "evm", e: true, f: map }
    <<Shape("object", <<Function, Symbol, Ref(2), Str(Text_evm), Bool(TRUE), Ref(3)>>),
      Shape("date", <<>>),
      Shape("map", <<Num(1), Ref(2)>>)>>,
    \* x = { a: { a: [x] } }: a cycle through two objects and an array
    <<Shape("object", <<Ref(2)>>), Shape("object", <<Ref(3)>>), Shape("array", <<Ref(1)>>)>>,
    \* { a: [s, s, null, undefined] } with s = { a: 1 }
    <<Shape("object", <<Ref(2)>>), Shape("array", <<Ref(3), Ref(3), Null, Undefined>>),
      Shape("object", <<Num(1)>>)>>,
    \* { a: new Set([s, 5n]), b: s } with s = { a: s }
    <<Shape("object", <<Ref(2), Ref(3)>>),
      Shape("set", <<Ref(3), BigIntV(FALSE, SmallMag(5))>>),
      Shape("object", <<Ref(3)>>)>>,
    \* { a: 1, b: new Date(NaN) }
    <<Shape("object", <<Num(1), Ref(2)>>), Shape("invaliddate", <<>>)>>,
    \* [ [ new Date(NaN) ] ]
    <<Shape("array", <<Ref(2)>>), Shape("array", <<Ref(3)>>), Shape("invaliddate", <<>>)>>,
    \* a chain of four objects closed into a cycle
    <<Shape("object", <<Ref(2)>>), Shape("object", <<Ref(3)>>),
      Shape("object", <<Ref(4)>>), Shape("object", <<Num(1), Ref(1)>>)>> }

NoHeap == <<>>

PrimitiveRoots == {Undefined, Null, Num(1), Str(Text_evm)}

InitSanVars ==
  /\ \/ heap \in FamilyHeaps \cup NamedHeaps /\ root = Ref(1)
     \/ heap = NoHeap /\ root \in PrimitiveRoots
  /\ seen = {}
  /\ stack = <<>>
  /\ sresult = None
  /\ spc = "ready"
  /\ emitted = {}

SanOff ==
  /\ heap = NoHeap
  /\ root = Undefined
  /\ seen = {}
  /\ stack = <<>>
  /\ sresult = None
  /\ spc = "off"
  /\ emitted = {}

CodecOff ==
  /\ cpc = "off"
  /\ payment = Undefined
  /\ wire = None
  /\ decoded = None
  /\ vobj = Undefined
  /\ validated = None

-----------------------------------------------------------------------------
(* facilitator.js: useFacilitator *)

DEFAULT_FACILITATOR_URL ==
  <<"h", "t", "t", "p", "s", ":", "/", "/", "f", "a", "c", "i", "l", "i",
    "t", "a", "t", "o", "r", ".", "a", "e", "o", "n", ".", "x", "y", "z">>
Text_otherUrl ==
  <<"h", "t", "t", "p", ":", "/", "/", "l", "o", "c", "a", "l", "h", "o",
    "s", "t", ":", "3", "0", "0", "0">>
VerifyFailedPrefix ==
  <<"F", "a", "i", "l", "e", "d", " ", "t", "o", " ", "v", "e", "r", "i",
    "f", "y", " ", "p", "a", "y", "m", "e", "n", "t", ":", " ">>
SettleFailedPrefix ==
  <<"F", "a", "i", "l", "e", "d", " ", "t", "o", " ", "s", "e", "t", "t",
    "l", "e", " ", "p", "a", "y", "m", "e", "n", "t", ":", " ">>
Text_insufficientFunds ==
  <<"i", "n", "s", "u", "f", "f", "i", "c", "i", "e", "n", "t", " ", "f",
    "u", "n", "d", "s">>
Text_OK ==
  <<"O", "K">>
Text_Created ==
  <<"C", "r", "e", "a", "t", "e", "d">>
Text_PaymentRequired ==
  <<"P", "a", "y", "m", "e", "n", "t", " ", "R", "e", "q", "u", "i", "r",
    "e", "d">>
Text_InternalServerError ==
  <<"I", "n", "t", "e", "r", "n", "a", "l", " ", "S", "e", "r", "v", "e",
    "r", " ", "E", "r", "r", "o", "r">>
Text_html ==
  <<"<", "h", "t", "m", "l", ">", "B", "a", "d", " ", "G", "a", "t", "e",
    "w", "a", "y", "<", "/", "h", "t", "m", "l", ">">>

\* how an async function's promise settles
Resolved(v) == [ok |-> TRUE, val |-> v]
Rejected(kind, text) == [ok |-> FALSE, err |-> kind, text |-> text]
Pending == [ok |-> FALSE, err |-> "pending", text |-> <<>>]

NoRequest == [sent |-> FALSE]
NoResponse == [kind |-> "none"]
FetchFailed == [kind |-> "rejected"]
Response(status, statusText, body) ==
  [kind |-> "response", status |-> status, statusText |-> statusText, body |-> body]

\* a response body: a JSON document, text that is not JSON, or a stream
\* whose read fails
JsonBody(doc) == [read |-> TRUE, json |-> TRUE, doc |-> doc]
TextBody(chars) == [read |-> TRUE, json |-> FALSE, chars |-> chars]
BrokenBody == [read |-> FALSE, json |-> FALSE]

\* await res.json()
ResJson(res) ==
  IF ~res.body.read THEN Rejected("TypeError", <<>>)
  ELSE IF ~res.body.json THEN Rejected("SyntaxError", <<>>)
  ELSE Resolved(res.body.doc)

\* await res.text()
ResText(res) ==
  IF ~res.body.read THEN Rejected("TypeError", <<>>) ELSE Resolved(<<>>)

\* facilitator?.url || DEFAULT_FACILITATOR_URL
UrlOf(f) ==
  IF ~IsNullish(f) /\ Truthy(Get(f, "url")) THEN Get(f, "url").v
  ELSE DEFAULT_FACILITATOR_URL

\* JSON.stringify of the request body built around a toJsonSafe result:
\* a big integer or a reference cycle left in it is a TypeError
RECURSIVE RawStringifies(_, _)
RawStringifies(v, path) ==
  CASE v.t = "bigint" -> FALSE
    [] v.t = "ref" ->
         /\ v.id \notin path
         /\ \/ heap[v.id].kind \in {"date", "set", "map"}
            \/ heap[v.id].kind \in {"object", "array"} /\
                 \A i \in 1..Len(heap[v.id].slots) :
                   RawStringifies(heap[v.id].slots[i], path \cup {v.id})
    [] OTHER -> TRUE

RECURSIVE Stringifies(_)
Stringifies(v) ==
  CASE v.t = "object" -> \A k \in DOMAIN v.v : Stringifies(v.v[k])
    [] v.t = "array" -> \A i \in 1..Len(v.v) : Stringifies(v.v[i])
    [] OTHER -> RawStringifies(v, {})

\* verify without the try / catch around res.json()
verifyResponseUncaught(res) ==
  LET generic == Str(VerifyFailedPrefix \o res.statusText)
      errorData == ResJson(res)
  IN  IF res.status # 200
      THEN IF ~errorData.ok THEN errorData
           ELSE IF IsNullish(errorData.val) THEN Rejected("TypeError", <<>>)
           ELSE Resolved(Obj([isValid |-> Bool(FALSE),
                              errorMessage |-> IF Truthy(Get(errorData.val, "error"))
                                               THEN Get(errorData.val, "error")
                                               ELSE generic]))
      ELSE ResJson(res)

\* verify, from the response on (lines 114-132)
verifyResponse(res) ==
  LET generic == Str(VerifyFailedPrefix \o res.statusText)
      errorData == ResJson(res)
      errorMessage ==
        IF ~errorData.ok THEN generic
        ELSE IF IsNullish(errorData.val) THEN generic
        ELSE IF Truthy(Get(errorData.val, "error")) THEN Get(errorData.val, "error")
        ELSE generic
  IN  IF res.status # 200
      THEN Resolved(Obj([isValid |-> Bool(FALSE), errorMessage |-> errorMessage]))
      ELSE ResJson(res)

\* settle without the try / catch around res.text()
settleResponseUncaught(res) ==
  LET responseBody == ResText(res)
      text == res.statusText
  IN  IF res.status # 200
      THEN IF ~responseBody.ok THEN responseBody
           ELSE Rejected("Error", SettleFailedPrefix \o NatDigits(res.status) \o <<" ">> \o text)
      ELSE ResJson(res)

\* settle, from the response on (lines 157-169)
settleResponse(res) ==
  LET responseBody == ResText(res)
      text == res.statusText
  IN  IF res.status # 200
      THEN Rejected("Error", SettleFailedPrefix \o NatDigits(res.status) \o <<" ">> \o text)
      ELSE ResJson(res)

\* verify / settle is called: the auth headers are awaited, then
\* toJsonSafe(paymentRequirements) starts
FacCall ==
  /\ fpc = "idle"
  /\ \E op \in {"verify", "settle"} : fop' = op
  /\ IF ~IsNullish(facilitator) /\ Get(facilitator, "createAuthHeaders").t = "function"
        /\ Get(facilitator, "createAuthHeaders").rejects
     THEN /\ foutcome' = Rejected("Error", <<>>)
          /\ fpc' = "done"
          /\ spc' = spc
     ELSE /\ foutcome' = foutcome
          /\ fpc' = "sanitizing"
          /\ spc' = "ready"
  /\ UNCHANGED <<facilitator, frequest, fresp>>
  /\ UNCHANGED <<heap, root, seen, stack, sresult, emitted, codecVars>>

\* toJsonSafe returned or threw: the body is serialized and fetch is called
FacSend ==
  /\ fpc = "sanitizing"
  /\ spc = "done"
  /\ IF ~sresult.ok
     THEN /\ foutcome' = Rejected("Error", <<>>)
          /\ fpc' = "done"
          /\ frequest' = frequest
     ELSE IF ~Stringifies(sresult.val)
     THEN /\ foutcome' = Rejected("TypeError", <<>>)
          /\ fpc' = "done"
          /\ frequest' = frequest
     ELSE /\ foutcome' = foutcome
          /\ fpc' = "fetching"
          /\ frequest' = [sent |-> TRUE,
                          url |-> UrlOf(facilitator) \o <<"/">>,
                          endpoint |-> fop,
                          auth |-> ~IsNullish(facilitator)
                                   /\ Get(facilitator, "createAuthHeaders").t = "function",
                          paymentRequirements |-> sresult.val]
  /\ UNCHANGED <<fop, facilitator, fresp, sanVars, codecVars>>

StatusTexts ==
  {<<200, Text_OK>>, <<200, <<>>>>, <<201, Text_Created>>,
   <<402, Text_PaymentRequired>>, <<500, Text_InternalServerError>>}

ResponseBodies ==
  { JsonBody(Fields([error |-> Str(Text_insufficientFunds)])),
    JsonBody(Fields([error |-> Str(<<>>)])),
    JsonBody(Fields([error |-> Num(0)])),
    JsonBody(Fields([error |-> Null])),
    JsonBody(Fields([error |-> Fields([code |-> Num(7)])])),
    JsonBody(Fields([message |-> Str(Text_insufficientFunds)])),
    JsonBody(Fields([isValid |-> Bool(TRUE)])),
    JsonBody(Fields([isValid |-> Bool(FALSE), errorMessage |-> Str(Text_insufficientFunds)])),
    JsonBody(Null),
    JsonBody(Str(Text_insufficientFunds)),
    TextBody(Text_html),
    TextBody(<<>>),
    BrokenBody }

\* the facilitator answers
FetchResolve ==
  /\ fpc = "fetching"
  /\ \E st \in StatusTexts, body \in ResponseBodies :
       fresp' = Response(st[1], st[2], body)
  /\ fpc' = "responded"
  /\ UNCHANGED <<fop, facilitator, frequest, foutcome, sanVars, codecVars>>

\* the request fails on the network: fetch rejects, and so does the caller
FetchReject ==
  /\ fpc = "fetching"
  /\ fresp' = FetchFailed
  /\ foutcome' = Rejected("TypeError", <<>>)
  /\ fpc' = "done"
  /\ UNCHANGED <<fop, facilitator, frequest, sanVars, codecVars>>

VerifyHandle ==
  /\ fpc = "responded"
  /\ fop = "verify"
  /\ foutcome' = verifyResponse(fresp)
  /\ fpc' = "done"
  /\ UNCHANGED <<fop, facilitator, frequest, fresp, sanVars, codecVars>>

SettleHandle ==
  /\ fpc = "responded"
  /\ fop = "settle"
  /\ foutcome' = settleResponse(fresp)
  /\ fpc' = "done"
  /\ UNCHANGED <<fop, facilitator, frequest, fresp, sanVars, codecVars>>

AuthHeaders(rejects) == [t |-> "function", rejects |-> rejects]

FacilitatorConfigs ==
  { Undefined,
    Fields([url |-> Str(Text_otherUrl)]),
    Fields([url |-> Str(Text_otherUrl), createAuthHeaders |-> AuthHeaders(FALSE)]),
    Fields([createAuthHeaders |-> AuthHeaders(TRUE)]) }

Text_http == <<"h", "t", "t", "p">>

\* payment requirements handed to verify / settle
RequirementHeaps ==
  { \* { scheme, namespace, amountRequired: 0.5, outputSchema: { input: { type,
    \*   discoverable } }, extra: { name, version } }
    <<Shape("object", <<Str(Text_exact), Str(Text_evm), NumHalf(0), Ref(2), Ref(3)>>),
      Shape("object", <<Ref(4)>>),
      Shape("object", <<Str(Text_evm), Str(Text_1)>>),
      Shape("object", <<Str(Text_http), Bool(TRUE)>>)>>,
    \* { scheme, accepts: [ { scheme }, "evm" ] }
    <<Shape("object", <<Str(Text_exact), Ref(2)>>),
      Shape("array", <<Ref(3), Str(Text_evm)>>),
      Shape("object", <<Str(Text_exact)>>)>>,
    \* { amounts: [ 5n ] }
    <<Shape("object", <<Ref(2)>>), Shape("array", <<BigIntV(FALSE, SmallMag(5))>>)>>,
    \* r = { scheme, tags: new Set([r]) }
    <<Shape("object", <<Str(Text_exact), Ref(2)>>), Shape("set", <<Ref(1)>>)>> }

InitFacVars ==
  /\ fpc = "idle"
  /\ fop = "none"
  /\ facilitator \in FacilitatorConfigs
  /\ frequest = NoRequest
  /\ fresp = NoResponse
  /\ foutcome = Pending
  /\ \/ heap \in RequirementHeaps /\ root = Ref(1)
     \/ heap = NoHeap /\ root = Undefined
  /\ seen = {}
  /\ stack = <<>>
  /\ sresult = None
  /\ spc = "off"
  /\ emitted = {}

FacOff ==
  /\ fpc = "off"
  /\ fop = "none"
  /\ facilitator = Undefined
  /\ frequest = NoRequest
  /\ fresp = NoResponse
  /\ foutcome = Pending

-----------------------------------------------------------------------------
(* Sanitizer properties *)

\* the positions of the root object's properties that hold the root itself
SelfSlots ==
  IF root.t = "ref" /\ heap[root.id].kind = "object"
  THEN {i \in 1..Len(heap[root.id].slots) : heap[root.id].slots[i] = root}
  ELSE {}

HasInvalidDate == \E i \in DOMAIN heap : heap[i].kind = "invaliddate"

\* C5: toJsonSafe terminates on every finite object graph, cyclic ones
\* included, and does so within the graph's size (at most one active call per
\* object, so never by exhausting the call stack); for an object x with
\* x.self = x it returns (x holding no invalid date) and the self property of
\* the result is the sentinel { "[Circular]": true }.
C5_Terminates ==
  /\ <>(spc = "done")
  /\ [](Len(stack) <= Cardinality(DOMAIN heap) /\ Len(stack) <= Cardinality(seen))
  /\ [](spc = "done" =>
          \A i \in SelfSlots :
            /\ ~HasInvalidDate => sresult.ok
            /\ sresult.ok => sresult.val.v[PropKey[i]] = Sentinel)

\* toJsonSafe returned for an object holding itself, the sentinel in place
C5_Witness ==
  /\ spc = "done"
  /\ SelfSlots # {}
  /\ sresult.ok
  /\ \A i \in SelfSlots : sresult.val.v[PropKey[i]] = Sentinel
  /\ emitted = {[id |-> root.id, onPath |-> TRUE]}

\* a value the caller's graph holds is JSON-safe: no cycle through path, and
\* nothing but plain objects, arrays, strings, numbers, booleans and null
RECURSIVE RawSafe(_, _)
RawSafe(v, path) ==
  CASE v.t \in {"string", "number", "boolean", "null"} -> TRUE
    [] v.t = "ref" ->
         /\ v.id \notin path
         /\ heap[v.id].kind \in {"object", "array"}
         /\ \A i \in 1..Len(heap[v.id].slots) :
              RawSafe(heap[v.id].slots[i], path \cup {v.id})
    [] OTHER -> FALSE

\* a value of the result is JSON-safe at every depth
RECURSIVE JsonSafe(_)
JsonSafe(v) ==
  CASE v.t = "object" -> \A k \in DOMAIN v.v : JsonSafe(v.v[k])
    [] v.t = "array" -> \A i \in 1..Len(v.v) : JsonSafe(v.v[i])
    [] OTHER -> RawSafe(v, {})

\* C6: whenever toJsonSafe returns for an object or array, the result is a
\* JSON-safe tree at every depth: only objects, arrays, strings, numbers and
\* booleans, no big integer, symbol, function, undefined, Date, Set or Map
\* anywhere, and no reference cycle.
C6_JsonSafeResult ==
  (spc = "done" /\ sresult.ok) => JsonSafe(sresult.val)

\* C10: the sentinel is returned for an object only when that object is
\* being converted by an active call (it is its own ancestor in the
\* traversal); an object reached twice without a cycle is never replaced by
\* the sentinel.
C10_SentinelOnlyOnCycle ==
  \A e \in emitted : e.onPath

-----------------------------------------------------------------------------
(* Facilitator client properties *)

Answered == fpc = "done" /\ fresp.kind = "response"

NegativeResult(message) == Obj([isValid |-> Bool(FALSE), errorMessage |-> message])

GenericVerifyMessage == Str(VerifyFailedPrefix \o fresp.statusText)

BodyIsJson == fresp.body.read /\ fresp.body.json

\* the body is a JSON object with an error member
CarriesError == BodyIsJson /\ fresp.body.doc.t = "object" /\ "error" \in DOMAIN fresp.body.doc.v

\* ... whose value is neither "", 0, false nor null
CarriesTruthyError == CarriesError /\ Truthy(fresp.body.doc.v["error"])

\* C7 as stated: for every response whose status is not 200, verify returns
\* { isValid: false, errorMessage } without raising, errorMessage being the
\* body's JSON error member when the body parses as JSON and carries one, and
\* the generic message built from the status text otherwise; for status 200
\* it returns the parsed body.
C7_ErrorMemberWheneverCarried ==
  (Answered /\ fop = "verify") =>
    IF fresp.status # 200
    THEN foutcome = Resolved(NegativeResult(
           IF CarriesError THEN fresp.body.doc.v["error"] ELSE GenericVerifyMessage))
    ELSE BodyIsJson => foutcome = Resolved(fresp.body.doc)

\* C7 amended: as above, errorMessage being the body's JSON error member
\* when the body parses as JSON and that member is truthy (not "", 0, false
\* or null), and the generic message otherwise.
C7_TruthyErrorMember ==
  (Answered /\ fop = "verify") =>
    IF fresp.status # 200
    THEN foutcome = Resolved(NegativeResult(
           IF CarriesTruthyError THEN fresp.body.doc.v["error"] ELSE GenericVerifyMessage))
    ELSE BodyIsJson => foutcome = Resolved(fresp.body.doc)

\* verify met HTTP 402 with body {"error":"insufficient funds"}
C7_Witness ==
  /\ Answered
  /\ fop = "verify"
  /\ fresp.status = 402
  /\ fresp.body = JsonBody(Fields([error |-> Str(Text_insufficientFunds)]))
  /\ foutcome = Resolved(NegativeResult(Str(Text_insufficientFunds)))

\* C8: verify turns every remote or transport failure into a negative
\* result: when fetch rejects, or the body of a 200 response cannot be read
\* as JSON, verify resolves to a result with isValid false and an
\* errorMessage, and never rejects.
C8_VerifyNeverRejects ==
  (/\ fpc = "done"
   /\ fop = "verify"
   /\ \/ fresp = FetchFailed
      \/ fresp.kind = "response" /\ fresp.status = 200 /\ ~BodyIsJson)
  => /\ foutcome.ok
     /\ foutcome.val.t = "object"
     /\ Get(foutcome.val, "isValid") = Bool(FALSE)
     /\ "errorMessage" \in DOMAIN foutcome.val.v

\* sub occurs in s
Contains(s, sub) ==
  \E i \in 0..(Len(s) - Len(sub)) : SubSeq(s, i + 1, i + Len(sub)) = sub

\* C9: for every response whose status is not 200, settle raises an error
\* whose message carries the status code and the status text, also when the
\* body cannot be read, and never returns a result object; only for status
\* 200 does it return the parsed settlement result.
C9_SettleFailsLoudly ==
  (Answered /\ fop = "settle") =>
    /\ fresp.status # 200 =>
         /\ ~foutcome.ok
         /\ foutcome.err = "Error"
         /\ Contains(foutcome.text, NatDigits(fresp.status))
         /\ Contains(foutcome.text, fresp.statusText)
    /\ foutcome.ok => fresp.status = 200 /\ BodyIsJson /\ foutcome.val = fresp.body.doc
    /\ (fresp.status = 200 /\ BodyIsJson) => foutcome.ok

\* settle met HTTP 500 with a body that could not be read, and raised
C9_Witness ==
  /\ Answered
  /\ fop = "settle"
  /\ fresp.status = 500
  /\ fresp.body = BrokenBody
  /\ ~foutcome.ok
  /\ Contains(foutcome.text, <<"5", "0", "0">>)

-----------------------------------------------------------------------------
(* Specifications *)

vars == <<codecVars, sanVars, facVars>>

\* the codec: a signer encodes, a receiver decodes, the validation is applied
InitCodec == InitCodecVars /\ SanOff /\ FacOff
NextCodec == Encode \/ Receive \/ Decode \/ Validate
SpecCodec == InitCodec /\ [][NextCodec]_vars

\* one top-level toJsonSafe call on an object graph
InitSan == InitSanVars /\ CodecOff /\ FacOff
NextSan == SanCall \/ SanEntry \/ SanItem \/ SanItemsDone \/ SanReturn
SpecSan == InitSan /\ [][NextSan]_vars
\* the call is synchronous: it runs to completion once started
SpecSanLive == SpecSan /\ WF_vars(NextSan)

\* one verify or settle call against a facilitator
InitFac == InitFacVars /\ CodecOff
NextFac ==
  \/ FacCall \/ FacSend \/ FetchResolve \/ FetchReject \/ VerifyHandle \/ SettleHandle
  \/ SanCall \/ SanEntry \/ SanItem \/ SanItemsDone \/ SanReturn
SpecFac == InitFac /\ [][NextFac]_vars

====
